---- MODULE Spec2Model ----
(***************************************************************************)
(* Ticket lifecycle and access control of backend-server.js.               *)
(*                                                                         *)
(* The persisted store (tables tickets and comments) is the state; every   *)
(* Express handler is one action that runs its single SQL statement        *)
(* against the store and records the HTTP response.  SpecConc splits the   *)
(* handlers at their await point, so that requests interleave.             *)
(*                                                                         *)
(* Environment: the pool answers every statement (the catch branches, 500, *)
(* are failures of the external store and change no row), and tokens are   *)
(* valid, so authenticateToken yields req.user = (userId, role).           *)
(***************************************************************************)
EXTENDS Integers, Sequences, FiniteSets, TLC

\* ---- bounds of the model ----
MaxTickets == 2
MaxTime == 1
MaxComments == 1
MaxInflight == 2

\* ---- values ----
\* JavaScript undefined: a key missing from the JSON body
Absent == "undefined"
\* SQL NULL in a text / reference column
Null == "NULL"
\* SQL NULL in a timestamp column; a set timestamp t is <<t>>
NullTime == << >>

\* users table: registration is outside the core, the table is fixed
Clients == {"c1", "c2"}

Staff == {"k1", "a1"}

Users == Clients \cup Staff

\* role claim of the token issued by login
Role(u) == IF u \in Clients THEN "client" ELSE IF u = "k1" THEN "consultant" ELSE "admin"

FullName(u) == IF u = Null THEN Null ELSE "name-" \o u

\* ---- request inputs ----
TicketIds == 1..(MaxTickets + 1)

\* the first ticket, and an id no ticket ever has
TargetIds == {1, MaxTickets + 1}

StatusIn == {Absent, "open", "in_progress", "closed"}

PriorityIn == {Absent, "high"}

\* null is a JSON value: present, and not undefined
AssignIn == {Absent, Null, "k1"}

NotesIn == {Absent, "fixed"}

Patches == [status : StatusIn, priority : PriorityIn, assigned_to : AssignIn, resolution_notes : NotesIn]

EmptyPatch == [status |-> Absent, priority |-> Absent, assigned_to |-> Absent, resolution_notes |-> Absent]

\* status is free text in the code: "pending" is a value outside the three states
StatusPatches == {[EmptyPatch EXCEPT !.status = st] : st \in {"in_progress", "closed", "pending"}}

\* patches sent where the full set is not swept: by a client, to an id no ticket has, concurrently
SamplePatches ==
  { EmptyPatch, [EmptyPatch EXCEPT !.status = "closed", !.resolution_notes = "fixed"],
    [EmptyPatch EXCEPT !.status = "open", !.assigned_to = "k1"] }

PlainBody == [title |-> "t", description |-> "d", priority |-> Absent, category |-> Absent]

OptionBodies == {PlainBody, [PlainBody EXCEPT !.priority = "high", !.category = "network"]}

TitleBodies == [title : {"", "t"}, description : {"", "d"}, priority : {Absent}, category : {Absent}]

CommentTexts == {"", "hello"}

VARIABLES tickets, comments, now, res, closedBy, inflight

vars == <<tickets, comments, now, res, closedBy, inflight>>

\* ---- helpers ----
\* JavaScript  v || d
OrDefault(v, d) == IF v = Absent \/ v = Null \/ v = "" THEN d ELSE v

\* columns the INSERT of POST /api/tickets does not name take the table defaults
ColumnDefaults == [status |-> "open", assigned_to |-> Null, resolution_notes |-> Null, closed_at |-> NullTime]

\* the row INSERT INTO tickets ... RETURNING * produces
NewTicket(id, u, body, t) ==
  [ticket_id |-> id, client_id |-> u, title |-> body.title, description |-> body.description,
   priority |-> OrDefault(body.priority, "medium"), category |-> OrDefault(body.category, "general"),
   status |-> ColumnDefaults.status, assigned_to |-> ColumnDefaults.assigned_to,
   resolution_notes |-> ColumnDefaults.resolution_notes,
   created_at |-> <<t>>, updated_at |-> <<t>>, closed_at |-> ColumnDefaults.closed_at]

\* fields / values of PUT /api/tickets/:id: the SET list, in the order built
ParamOrNull(col, v) == << [col |-> col, kind |-> "param", val |-> IF v = Absent THEN Null ELSE v] >>

Param(col, v) == IF v # Absent THEN << [col |-> col, kind |-> "param", val |-> v] >> ELSE << >>

ClosedAtFieldAnyStatus(body) == IF body.status # Absent THEN << [col |-> "closed_at", kind |-> "now", val |-> Null] >> ELSE << >>

ClosedAtField(body) == IF body.status = "closed" THEN << [col |-> "closed_at", kind |-> "now", val |-> Null] >> ELSE << >>

BuildFieldsNoClosedAt(body) ==
  Param("status", body.status) \o Param("priority", body.priority)
    \o Param("assigned_to", body.assigned_to) \o Param("resolution_notes", body.resolution_notes)
    \o << [col |-> "updated_at", kind |-> "now", val |-> Null] >>

BuildFields(body) ==
  Param("status", body.status) \o Param("priority", body.priority)
    \o Param("assigned_to", body.assigned_to) \o Param("resolution_notes", body.resolution_notes)
    \o ClosedAtField(body)
    \o << [col |-> "updated_at", kind |-> "now", val |-> Null] >>

\* one assignment of the SET list on one row
SetField(row, f, t) == [row EXCEPT ![f.col] = IF f.kind = "now" THEN <<t>> ELSE f.val]

RECURSIVE ApplyFields(_, _, _)
ApplyFields(row, fields, t) ==
  IF fields = << >> THEN row
  ELSE ApplyFields(SetField(row, Head(fields), t), Tail(fields), t)

\* UPDATE tickets SET ... WHERE ticket_id = id: the table afterwards
UpdateTableNoWhere(tbl, fields, id, t) == [i \in 1..Len(tbl) |-> ApplyFields(tbl[i], fields, t)]

UpdateTable(tbl, fields, id, t) ==
  [i \in 1..Len(tbl) |-> IF tbl[i].ticket_id = id THEN ApplyFields(tbl[i], fields, t) ELSE tbl[i]]

\* ... RETURNING *: the rows it touched
UpdateRows(tbl, fields, id, t) ==
  IF id \in 1..Len(tbl) THEN << ApplyFields(tbl[id], fields, t) >> ELSE << >>

\* LEFT JOIN users u / users a of the ticket reads
JoinNames(row) ==
  [ticket |-> row, client_name |-> FullName(row.client_id), assigned_to_name |-> FullName(row.assigned_to)]

\* WHERE clause of GET /api/tickets: the ticket ids selected
InScopeNoFilter(u, tbl) == 1..Len(tbl)

InScope(u, tbl) ==
  IF Role(u) = "client" THEN {i \in 1..Len(tbl) : tbl[i].client_id = u} ELSE 1..Len(tbl)

\* ORDER BY created_at DESC: any order of the selected rows with no earlier row first
Orderings(S, tbl) ==
  {s \in [1..Cardinality(S) -> S] :
     /\ \A i, j \in 1..Cardinality(S) : i # j => s[i] # s[j]
     /\ \A i, j \in 1..Cardinality(S) : i < j => tbl[s[i]].created_at[1] >= tbl[s[j]].created_at[1]}

ListRows(s, tbl) == [i \in 1..Len(s) |-> JoinNames(tbl[s[i]])]

\* WHERE clause of GET /api/dashboard/stats, written out a second time in the code
StatsScope(u, tbl) ==
  IF Role(u) = "client" THEN {i \in 1..Len(tbl) : tbl[i].client_id = u} ELSE 1..Len(tbl)

\* COUNT(*) FILTER (WHERE status = st)
CountStatus(S, tbl, st) == Cardinality({i \in S : tbl[i].status = st})

StatsTotalOfThree(u, tbl) ==
  [open_tickets |-> CountStatus(StatsScope(u, tbl), tbl, "open"),
   in_progress_tickets |-> CountStatus(StatsScope(u, tbl), tbl, "in_progress"),
   closed_tickets |-> CountStatus(StatsScope(u, tbl), tbl, "closed"),
   total_tickets |-> CountStatus(StatsScope(u, tbl), tbl, "open")
                       + CountStatus(StatsScope(u, tbl), tbl, "in_progress")
                       + CountStatus(StatsScope(u, tbl), tbl, "closed")]

Stats(u, tbl) ==
  [open_tickets |-> CountStatus(StatsScope(u, tbl), tbl, "open"),
   in_progress_tickets |-> CountStatus(StatsScope(u, tbl), tbl, "in_progress"),
   closed_tickets |-> CountStatus(StatsScope(u, tbl), tbl, "closed"),
   total_tickets |-> Cardinality(StatsScope(u, tbl))]

\* WHERE c.ticket_id = id ORDER BY c.created_at ASC (comments are appended in time order)
CommentRows(id, cs) == SelectSeq(cs, LAMBDA c : c.ticket_id = id)

\* the last exchange: the request (op, req.user, req.params.id, req.body) and the answer
Response(op, u, id, body, code, rows) ==
  [op |-> op, user |-> u, id |-> id, body |-> body, code |-> code, rows |-> rows]

NoRequest == Response("none", Null, 0, EmptyPatch, 0, << >>)

\* a request slot: idle, or sent (the handler waits on pool.query)
Request(pc, op, u, id, body, fields) ==
  [pc |-> pc, op |-> op, user |-> u, id |-> id, body |-> body, fields |-> fields]

Idle == Request("idle", "none", Null, 0, EmptyPatch, << >>)

Slots == 1..MaxInflight

\* ---- initial state: empty tables ----
Init ==
  /\ tickets = << >>
  /\ comments = << >>
  /\ now = 0
  /\ res = NoRequest
  /\ closedBy = {}
  /\ inflight = [s \in Slots |-> Idle]

\* the clock of CURRENT_TIMESTAMP
Tick ==
  /\ now < MaxTime
  /\ now' = now + 1
  /\ UNCHANGED <<tickets, comments, res, closedBy, inflight>>

\* GET /api/tickets
ListTickets(u) ==
  /\ \E s \in Orderings(InScope(u, tickets), tickets) :
       res' = Response("list", u, 0, EmptyPatch, 200, ListRows(s, tickets))
  /\ UNCHANGED <<tickets, comments, now, closedBy, inflight>>

\* GET /api/tickets/:id
GetTicket(u, id) ==
  /\ res' = IF id \in 1..Len(tickets)
            THEN Response("get", u, id, EmptyPatch, 200, << JoinNames(tickets[id]) >>)
            ELSE Response("get", u, id, EmptyPatch, 404, << >>)
  /\ UNCHANGED <<tickets, comments, now, closedBy, inflight>>

\* POST /api/tickets
CreateTicket(u, body) ==
  /\ Len(tickets) < MaxTickets
  /\ LET row == NewTicket(Len(tickets) + 1, u, body, now) IN
       /\ tickets' = Append(tickets, row)
       /\ res' = Response("create", u, row.ticket_id, body, 201, << row >>)
  /\ UNCHANGED <<comments, now, closedBy, inflight>>

\* PUT /api/tickets/:id
UpdateTicket(u, id, body) ==
  /\ LET fields == BuildFields(body)
         rows == UpdateRows(tickets, fields, id, now) IN
       /\ tickets' = UpdateTable(tickets, fields, id, now)
       /\ res' = IF rows = << >> THEN Response("update", u, id, body, 404, << >>)
                 ELSE Response("update", u, id, body, 200, rows)
       /\ closedBy' = IF rows # << >> /\ body.status = "closed" THEN closedBy \cup {id} ELSE closedBy
  /\ UNCHANGED <<comments, now, inflight>>

\* GET /api/tickets/:id/comments
ListComments(u, id) ==
  /\ res' = Response("comments", u, id, EmptyPatch, 200, CommentRows(id, comments))
  /\ UNCHANGED <<tickets, comments, now, closedBy, inflight>>

\* GET /api/dashboard/stats
DashboardStats(u) ==
  /\ res' = Response("stats", u, 0, EmptyPatch, 200, << Stats(u, tickets) >>)
  /\ UNCHANGED <<tickets, comments, now, closedBy, inflight>>

\* POST /api/tickets/:id/comments (for a ticket that exists: what the insert does
\* with any other id is decided by the table's constraints)
AddComment(u, id, text) ==
  /\ Len(comments) < MaxComments
  /\ id \in 1..Len(tickets)
  /\ LET row == [comment_id |-> Len(comments) + 1, ticket_id |-> id, user_id |-> u,
                 comment_text |-> text, created_at |-> <<now>>] IN
       /\ comments' = Append(comments, row)
       /\ res' = Response("comment", u, id, [comment_text |-> text], 201, << row >>)
  /\ UNCHANGED <<tickets, now, closedBy, inflight>>

\* ---- ticket lifecycle: creation, partial updates, the clock ----
Next ==
  \/ Tick
  \/ CreateTicket("c1", PlainBody)
  \/ \E body \in Patches : UpdateTicket("k1", 1, body)
  \/ \E u \in {"c2", "k1"}, id \in TargetIds, body \in SamplePatches : UpdateTicket(u, id, body)

Spec == Init /\ [][Next]_vars

\* ---- scoping of the listing and of the dashboard ----
NextScope ==
  \/ \E u \in {"c1", "c2", "k1"} : CreateTicket(u, PlainBody)
  \/ \E id \in TicketIds, body \in StatusPatches : UpdateTicket("k1", id, body)
  \/ \E u \in Users : ListTickets(u)
  \/ \E u \in Users : DashboardStats(u)

SpecScope == Init /\ [][NextScope]_vars

\* ---- reads by id, comments, creation bodies ----
NextRead ==
  \/ \E u \in Clients, body \in TitleBodies \cup OptionBodies : CreateTicket(u, body)
  \/ \E u \in Users, id \in TicketIds : GetTicket(u, id)
  \/ \E u \in Users, id \in TicketIds : ListComments(u, id)
  \/ \E u \in Users, id \in TicketIds, text \in CommentTexts : AddComment(u, id, text)

SpecRead == Init /\ [][NextRead]_vars

\* ---- concurrent requests: each handler split at its await ----
\* the handler runs up to  await pool.query(...)
SendCreate(s, u, body) ==
  /\ inflight[s].pc = "idle"
  /\ inflight' = [inflight EXCEPT ![s] = Request("sent", "create", u, 0, body, << >>)]
  /\ UNCHANGED <<tickets, comments, now, res, closedBy>>

SendUpdate(s, u, id, body) ==
  /\ inflight[s].pc = "idle"
  /\ inflight' = [inflight EXCEPT ![s] = Request("sent", "update", u, id, body, BuildFields(body))]
  /\ UNCHANGED <<tickets, comments, now, res, closedBy>>

SendGet(s, u, id) ==
  /\ inflight[s].pc = "idle"
  /\ inflight' = [inflight EXCEPT ![s] = Request("sent", "get", u, id, EmptyPatch, << >>)]
  /\ UNCHANGED <<tickets, comments, now, res, closedBy>>

SendList(s, u) ==
  /\ inflight[s].pc = "idle"
  /\ inflight' = [inflight EXCEPT ![s] = Request("sent", "list", u, 0, EmptyPatch, << >>)]
  /\ UNCHANGED <<tickets, comments, now, res, closedBy>>

\* the store executes the one statement of the request and the handler, resumed,
\* answers with the rows it returned (the continuation touches nothing shared)
ExecCreate(s) ==
  /\ inflight[s].pc = "sent" /\ inflight[s].op = "create"
  /\ Len(tickets) < MaxTickets
  /\ LET row == NewTicket(Len(tickets) + 1, inflight[s].user, inflight[s].body, now) IN
       /\ tickets' = Append(tickets, row)
       /\ res' = Response("create", inflight[s].user, row.ticket_id, inflight[s].body, 201, << row >>)
  /\ inflight' = [inflight EXCEPT ![s] = Idle]
  /\ UNCHANGED <<comments, now, closedBy>>

ExecUpdate(s) ==
  /\ inflight[s].pc = "sent" /\ inflight[s].op = "update"
  /\ LET r == inflight[s]
         rows == UpdateRows(tickets, r.fields, r.id, now) IN
       /\ tickets' = UpdateTable(tickets, r.fields, r.id, now)
       /\ res' = IF rows = << >> THEN Response("update", r.user, r.id, r.body, 404, << >>)
                 ELSE Response("update", r.user, r.id, r.body, 200, rows)
       /\ closedBy' = IF rows # << >> /\ r.body.status = "closed" THEN closedBy \cup {r.id} ELSE closedBy
  /\ inflight' = [inflight EXCEPT ![s] = Idle]
  /\ UNCHANGED <<comments, now>>

ExecGet(s) ==
  /\ inflight[s].pc = "sent" /\ inflight[s].op = "get"
  /\ LET r == inflight[s] IN
       res' = IF r.id \in 1..Len(tickets)
              THEN Response("get", r.user, r.id, EmptyPatch, 200, << JoinNames(tickets[r.id]) >>)
              ELSE Response("get", r.user, r.id, EmptyPatch, 404, << >>)
  /\ inflight' = [inflight EXCEPT ![s] = Idle]
  /\ UNCHANGED <<tickets, comments, now, closedBy>>

ExecList(s) ==
  /\ inflight[s].pc = "sent" /\ inflight[s].op = "list"
  /\ \E o \in Orderings(InScope(inflight[s].user, tickets), tickets) :
       res' = Response("list", inflight[s].user, 0, EmptyPatch, 200, ListRows(o, tickets))
  /\ inflight' = [inflight EXCEPT ![s] = Idle]
  /\ UNCHANGED <<tickets, comments, now, closedBy>>

NextConc ==
  \/ Tick
  \/ \E s \in Slots : SendCreate(s, "c1", PlainBody)
  \/ \E s \in Slots, body \in SamplePatches \ {EmptyPatch} : SendUpdate(s, "k1", 1, body)
  \/ \E s \in Slots : SendGet(s, "c1", 1)
  \/ \E s \in Slots : SendList(s, "k1")
  \/ \E s \in Slots : ExecCreate(s)
  \/ \E s \in Slots : ExecUpdate(s)
  \/ \E s \in Slots : ExecGet(s)
  \/ \E s \in Slots : ExecList(s)

SpecConc == Init /\ [][NextConc]_vars

\* ======================= properties =======================
PatchCols == {"status", "priority", "assigned_to", "resolution_notes"}

ImmutableCols == {"ticket_id", "client_id", "title", "description", "category", "created_at"}

Existing == 1..Len(tickets)

\* a step of the PUT handler: the response is an update's and the clock did not move
IsUpdateStep == res'.op = "update" /\ now' = now

\* C1: an update issued by a client-role caller never changes status, priority,
\* assignedTo or resolutionNotes of any ticket.
C1_ClientUpdateLeavesFields ==
  [][(IsUpdateStep /\ Role(res'.user) = "client")
       => \A i \in Existing : \A c \in PatchCols : tickets'[i][c] = tickets[i][c]]_vars

\* C2: for a client-role caller, getById returns a ticket, listComments returns
\* comments and addComment succeeds only on a ticket whose clientId is the caller's id.
C2_ClientReadsOwnOnly ==
  Role(res.user) = "client" =>
    /\ (res.op = "get" /\ res.code = 200) => res.rows[1].ticket.client_id = res.user
    /\ (res.op = "comments" /\ res.rows # << >>) => tickets[res.id].client_id = res.user
    /\ (res.op = "comment" /\ res.code = 201) => tickets[res.id].client_id = res.user

\* C3: a listing answered to a consultant or an admin holds every ticket of the store,
\* and a listing answered to client u holds exactly the tickets with clientId = u,
\* each once and as stored.
ListedIds(rows) == {rows[j].ticket.ticket_id : j \in 1..Len(rows)}

C3_ListScope ==
  [][res'.op = "list" =>
       /\ Len(res'.rows) = Cardinality(ListedIds(res'.rows))
       /\ \A j \in 1..Len(res'.rows) :
            /\ res'.rows[j].ticket.ticket_id \in Existing
            /\ res'.rows[j].ticket = tickets[res'.rows[j].ticket.ticket_id]
       /\ Role(res'.user) \in {"consultant", "admin"} => ListedIds(res'.rows) = Existing
       /\ Role(res'.user) = "client"
            => ListedIds(res'.rows) = {i \in Existing : tickets[i].client_id = res'.user}]_vars

C3_Witness ==
  /\ res.op = "list" /\ res.user = "c1" /\ Len(res.rows) = 1
  /\ Len(tickets) = 2
  /\ \E i \in Existing : tickets[i].client_id = "c2"

\* C4: the dashboard counts answered to a caller equal the caller's listing of the same
\* state partitioned by status, and totalCount equals the length of that listing.
CountRows(rows, st) == Cardinality({j \in 1..Len(rows) : rows[j].ticket.status = st})

C4_StatsMatchListing ==
  [][res'.op = "stats" =>
       \A o \in Orderings(InScope(res'.user, tickets), tickets) :
         LET listing == ListRows(o, tickets)
             st == res'.rows[1] IN
           /\ st.open_tickets = CountRows(listing, "open")
           /\ st.in_progress_tickets = CountRows(listing, "in_progress")
           /\ st.closed_tickets = CountRows(listing, "closed")
           /\ st.total_tickets = Len(listing)]_vars

C4_Witness ==
  /\ res.op = "stats" /\ res.user = "c1"
  /\ res.rows[1].total_tickets = 1
  /\ res.rows[1].open_tickets = 0 /\ res.rows[1].in_progress_tickets = 0
  /\ res.rows[1].closed_tickets = 0
  /\ \E i \in Existing : tickets[i].client_id = "c1" /\ tickets[i].status = "pending"
  /\ \E i \in Existing : tickets[i].client_id # "c1" /\ tickets[i].status = "closed"

\* C5: closedAt of a ticket is non-null exactly when an update carrying status = closed
\* has been applied to it (closedBy records those tickets): null on a fresh ticket,
\* kept by a later reopen.
C5_ClosedAtIffClosedOnce ==
  \A i \in Existing : (tickets[i].closed_at # NullTime) <=> (i \in closedBy)

C5_Witness ==
  /\ Len(tickets) = 2
  /\ tickets[1].status = "open" /\ tickets[1].closed_at # NullTime /\ 1 \in closedBy
  /\ tickets[1].updated_at # tickets[1].closed_at
  /\ tickets[2].closed_at = NullTime

\* C6: an update of an existing ticket succeeds, keeps every patchable field absent from
\* the patch, never changes id, clientId, title, description, category, createdAt,
\* changes closedAt only if the patch's status is closed, sets updatedAt to the current
\* time and touches no other ticket; the empty patch changes updatedAt alone.
C6_PartialUpdateFrame ==
  [][(IsUpdateStep /\ res'.id \in Existing) =>
       LET i == res'.id
           b == res'.body
           old == tickets[i]
           new == tickets'[i] IN
         /\ res'.code = 200
         /\ Len(tickets') = Len(tickets)
         /\ \A c \in PatchCols : b[c] = Absent => new[c] = old[c]
         /\ \A c \in ImmutableCols : new[c] = old[c]
         /\ b.status # "closed" => new.closed_at = old.closed_at
         /\ new.updated_at = <<now>>
         /\ \A j \in Existing : j # i => tickets'[j] = tickets[j]
         /\ b = EmptyPatch => tickets' = [tickets EXCEPT ![i].updated_at = <<now>>]]_vars

C6_Witness ==
  /\ res.op = "update" /\ res.code = 200
  /\ res.body = [EmptyPatch EXCEPT !.priority = "high"]
  /\ tickets[res.id].priority = "high"
  /\ tickets[res.id].status = "closed"
  /\ tickets[res.id].assigned_to = "k1"
  /\ tickets[res.id].resolution_notes = "fixed"
  /\ tickets[res.id].updated_at # tickets[res.id].closed_at
  /\ Len(tickets) = 2

\* C7: once closedAt of a ticket is non-null, no later update changes its value.
C7_ClosedAtWriteOnce ==
  [][\A i \in Existing : tickets[i].closed_at # NullTime => tickets'[i].closed_at = tickets[i].closed_at]_vars

\* C8: an update addressed to an id no ticket has answers 404 and leaves both tables
\* as they were.
C8_UpdateMissingIsNotFound ==
  [][(IsUpdateStep /\ res'.id \notin Existing) =>
       /\ res'.code = 404
       /\ res'.rows = << >>
       /\ tickets' = tickets
       /\ comments' = comments]_vars

C8_Witness ==
  /\ res.op = "update" /\ res.code = 404 /\ res.id = MaxTickets + 1
  /\ res.body.status = "closed"
  /\ Len(tickets) >= 1
  /\ tickets[1].updated_at # <<now>>

\* C9: create answers an empty title or description with a validation error and adds
\* nothing, so every stored ticket has a non-empty title and description.
C9_NoEmptyTitleOrDescription ==
  /\ (res.op = "create" /\ (res.body.title = "" \/ res.body.description = "")) => res.code # 201
  /\ \A i \in Existing : tickets[i].title # "" /\ tickets[i].description # ""

\* C10: with requests interleaved, every step that changes a ticket applies the whole
\* patch of one pending update (fields, updatedAt and, on closed, closedAt), and neither
\* the store nor a read's answer ever holds a ticket with status closed and closedAt null.
WholePatch(old, new, b, t) ==
  /\ \A c \in PatchCols : new[c] = IF b[c] # Absent THEN b[c] ELSE old[c]
  /\ \A c \in ImmutableCols : new[c] = old[c]
  /\ new.updated_at = <<t>>
  /\ new.closed_at = IF b.status = "closed" THEN <<t>> ELSE old.closed_at

StoreStepIsWholePatch ==
  /\ Len(tickets') >= Len(tickets)
  /\ \A i \in Existing :
       tickets'[i] # tickets[i] =>
         \E s \in Slots :
           /\ inflight[s].pc = "sent" /\ inflight[s].op = "update" /\ inflight[s].id = i
           /\ inflight'[s].pc = "idle"
           /\ WholePatch(tickets[i], tickets'[i], inflight[s].body, now)

ReadIsSnapshot ==
  (res'.op = "get" /\ res'.code = 200 /\ res' # res) => res'.rows[1].ticket = tickets[res'.id]

ClosedIsStamped ==
  /\ \A i \in Existing : tickets[i].status = "closed" => tickets[i].closed_at # NullTime
  /\ res.op \in {"get", "list"} =>
       \A j \in 1..Len(res.rows) :
         res.rows[j].ticket.status = "closed" => res.rows[j].ticket.closed_at # NullTime

C10_AtomicUpdate == []ClosedIsStamped /\ [][StoreStepIsWholePatch /\ ReadIsSnapshot]_vars

C10_Witness ==
  /\ res.op = "get" /\ res.code = 200
  /\ res.rows[1].ticket.status = "closed" /\ res.rows[1].ticket.resolution_notes = "fixed"
  /\ res.rows[1].ticket.assigned_to = "k1"
  /\ \E s \in Slots :
       inflight[s].pc = "sent" /\ inflight[s].op = "update" /\ inflight[s].id = 1
         /\ inflight[s].body.status = "open"
  /\ tickets[1].status = "closed"
====
